---- MODULE Spec2Model ----
(***************************************************************************)
(* Marketplace settlement engine of BSATSF.                                *)
(*                                                                         *)
(* Two marketplace contracts exist in the repository: the multi-asset one  *)
(* (contracts/BSATSF_Marketplace.sol: ERC-721 and ERC-1155 listings keyed  *)
(* by a listing-id counter) and the single-asset one (ERC-721 only,        *)
(* listings keyed by token id, settlement through the fee-bearing          *)
(* transferAsset).  A deployment holds one of them; `variant` says which.  *)
(*                                                                         *)
(* Every contract function is an operator from a ledger record (the        *)
(* storage of all contracts plus the native-currency balances) to a        *)
(* result [ok, err, w].  A revert returns the ledger the call started      *)
(* from.  Callbacks made during a call (the ERC-721 / ERC-1155 receive     *)
(* hook of a contract recipient) are a parameter of the call and are run   *)
(* on the ledger as it is at the point of the external call.               *)
(***************************************************************************)
EXTENDS Integers, Sequences, FiniteSets, TLC

\* ----------------------------------------------------------------- bounds
MaxListings == 2   \* listings ever created by the multi-asset marketplace
MaxQty      == 2   \* supply of the ERC-1155 token id
MaxValue    == 4   \* largest msg.value attached to a call

UintBits    == 3   \* width of an amount (uint256 in the contracts)

\* The largest amount, type(uint256).max.
MaxUint == 2^UintBits - 1

\* The default transfer fee, 0.001 ether; amounts are counted in this unit.
DefaultTransferFee == 1

\* ---------------------------------------------------------------- actors
ZERO     == "0x0"                  \* address(0)
Market   == "market"               \* address(this) of the marketplace
EOAs     == {"a1", "a2"}           \* externally owned accounts
Hooked   == {"c1"}                 \* accounts with code (receive hooks)
Accounts == EOAs \cup Hooked
Erc721   == "erc721"               \* address of the BSATSF_ERC721 contract
Holders  == Accounts \cup {Market, Erc721}

\* Who puts assets on sale: the ERC-721 token is minted to a1 and the
\* ERC-1155 units to c1; these accounts approve the marketplace and list.
\* Every account buys.
Minter721  == "a1"
Minter1155 == "c1"

Token721  == 0                     \* the minted ERC-721 token id
NoToken   == 1                     \* an ERC-721 token id that was never minted
TokenIds  == {Token721, NoToken}
Token1155 == 0                     \* the minted ERC-1155 token id

Prices     == {2}
Values     == 0..MaxValue
Quantities == 0..(MaxQty + 1)
ListingIds == 0..MaxListings

VARIABLES
    variant,               \* which marketplace contract is deployed
    marketBalance,         \* native currency held by the marketplace
    owner721,              \* ERC721 _owners[Token721]
    tokenApproval,         \* ERC721 _tokenApprovals[Token721]
    operatorApprovals721,  \* holders with isApprovedForAll(holder, Market)
    balances1155,          \* ERC1155 _balances[Token1155][holder]
    operatorApprovals1155, \* holders with isApprovedForAll(holder, Market)
    listings,              \* multi-asset: mapping listingId -> Listing
    listingIdCounter,      \* multi-asset: _listingIdCounter
    entered,               \* multi-asset: ReentrancyGuard status == ENTERED
    tokenListings,         \* single-asset: mapping tokenId -> Listing
    activeTokenIds,        \* single-asset: uint256[] activeTokenIds
    transferFee,           \* ERC721 transferFee
    platformOwner,         \* ERC721 owner(), the platform owner
    created,               \* history: quantity each listing was created with
    sold,                  \* history: units bought from each listing
    last,                  \* the call just made and its outcome
    received               \* net native currency each account got in it

vars == <<variant, marketBalance, owner721, tokenApproval, operatorApprovals721,
          balances1155, operatorApprovals1155, listings, listingIdCounter,
          entered, tokenListings, activeTokenIds, transferFee, platformOwner,
          created, sold, last, received>>

\* ------------------------------------------------------------ the ledger
\* Every account is funded well enough to attach any value in Values.
Funds == MaxValue

Ledger ==
    [bal |-> [h \in Holders |-> IF h = Market THEN marketBalance
                                ELSE IF h = Erc721 THEN 0 ELSE Funds],
     owner721 |-> owner721, tokenApproval |-> tokenApproval,
     operatorApprovals721 |-> operatorApprovals721,
     balances1155 |-> balances1155,
     operatorApprovals1155 |-> operatorApprovals1155,
     listings |-> listings, listingIdCounter |-> listingIdCounter,
     entered |-> entered, tokenListings |-> tokenListings,
     activeTokenIds |-> activeTokenIds, transferFee |-> transferFee,
     platformOwner |-> platformOwner, entered721 |-> FALSE,
     created |-> created, sold |-> sold]

Commit(w) ==
    /\ marketBalance' = w.bal[Market]
    /\ received' = [a \in Accounts |-> w.bal[a] - Funds]
    /\ owner721' = w.owner721
    /\ tokenApproval' = w.tokenApproval
    /\ operatorApprovals721' = w.operatorApprovals721
    /\ balances1155' = w.balances1155
    /\ operatorApprovals1155' = w.operatorApprovals1155
    /\ listings' = w.listings
    /\ listingIdCounter' = w.listingIdCounter
    /\ entered' = w.entered
    /\ tokenListings' = w.tokenListings
    /\ activeTokenIds' = w.activeTokenIds
    /\ transferFee' = w.transferFee
    /\ platformOwner' = w.platformOwner
    /\ created' = w.created
    /\ sold' = w.sold

Revert(w, e) == [ok |-> FALSE, err |-> e, w |-> w]
Done(w)      == [ok |-> TRUE, err |-> "", w |-> w]

\* The zero value of the Listing struct: what the mapping returns for a key
\* that was never written.
NoListing ==
    [listingId |-> 0, seller |-> ZERO, tokenAddress |-> ZERO, tokenId |-> 0,
     quantity |-> 0, pricePerUnit |-> 0, isERC1155 |-> FALSE, active |-> FALSE]

\* Moving native currency between two addresses.
Move(w, from, to, amt) ==
    [w EXCEPT !.bal = [[@ EXCEPT ![from] = @ - amt] EXCEPT ![to] = @ + amt]]

\* payable(to).transfer(amt): 2300 gas, so code at `to` cannot call back; it
\* either accepts the payment or makes the transfer revert.
Transfer(w, from, to, amt, accepts) ==
    IF w.bal[from] < amt THEN Revert(w, "insufficient balance")
    ELSE IF to \in Hooked /\ ~accepts THEN Revert(w, "payment refused")
    ELSE Done(Move(w, from, to, amt))

\* ---------------------------------------------------------- asset tokens
\* isApprovedForAll / getApproved as the token contracts answer them.  Only
\* the marketplace is ever named as an operator; the approved address of
\* the token can be any account.
IsOperator1155(w, holder, operator) ==
    operator = Market /\ holder \in w.operatorApprovals1155

IsAuthorized721(w, owner, spender) ==
    \/ spender = owner
    \/ spender = Market /\ owner \in w.operatorApprovals721
    \/ w.tokenApproval = spender

\* ----------------------------------------------- multi-asset marketplace
\* What a contract recipient does when its receive hook is called.
NoCallback == [kind |-> "accept", id |-> 0, qty |-> 0, value |-> 0, accepts |-> TRUE]

\* The account a hook passes assets or currency on to.
HookPayee == "a2"

RECURSIVE buyItem(_, _, _, _, _, _)
RECURSIVE Callback(_, _, _)

\* Variant: the transfer moves one unit whatever amount was asked for.
safeTransferFrom1155OneUnit(w, operator, from, to, amount, cb) ==
    IF from # operator /\ ~IsOperator1155(w, from, operator)
    THEN Revert(w, "ERC1155MissingApprovalForAll")
    ELSE IF w.balances1155[from] < 1
    THEN Revert(w, "ERC1155InsufficientBalance")
    ELSE LET moved == [w EXCEPT !.balances1155 =
                          [[@ EXCEPT ![from] = @ - 1] EXCEPT ![to] = @ + 1]]
         IN  Callback(moved, to, cb)

\* IERC1155.safeTransferFrom(from, to, id, amount, ""), called by operator.
safeTransferFrom1155(w, operator, from, to, amount, cb) ==
    IF from # operator /\ ~IsOperator1155(w, from, operator)
    THEN Revert(w, "ERC1155MissingApprovalForAll")
    ELSE IF w.balances1155[from] < amount
    THEN Revert(w, "ERC1155InsufficientBalance")
    ELSE LET moved == [w EXCEPT !.balances1155 =
                          [[@ EXCEPT ![from] = @ - amount] EXCEPT ![to] = @ + amount]]
         IN  Callback(moved, to, cb)

\* IERC721.safeTransferFrom(from, to, tokenId), called by operator.
safeTransferFrom721(w, operator, from, to, cb) ==
    IF w.owner721 = ZERO THEN Revert(w, "ERC721NonexistentToken")
    ELSE IF ~IsAuthorized721(w, w.owner721, operator)
    THEN Revert(w, "ERC721InsufficientApproval")
    ELSE IF w.owner721 # from THEN Revert(w, "ERC721IncorrectOwner")
    ELSE LET moved == [w EXCEPT !.owner721 = to, !.tokenApproval = ZERO]
         IN  Callback(moved, to, cb)

\* Variant: cancelListing without the seller check.
cancelListingAnyCaller(w, sender, listingId) ==
    LET listedItem == w.listings[listingId] IN
    IF ~listedItem.active THEN Revert(w, "Not active")
    ELSE Done([w EXCEPT !.listings[listingId].active = FALSE])

\* Variant: cancelListing also clears the quantity left.
cancelListingClearsQuantity(w, sender, listingId) ==
    LET listedItem == w.listings[listingId] IN
    IF listedItem.seller # sender THEN Revert(w, "Not seller")
    ELSE IF ~listedItem.active THEN Revert(w, "Not active")
    ELSE Done([w EXCEPT !.listings[listingId].active = FALSE,
                        !.listings[listingId].quantity = 0])

\* Variant: cancelListing deletes the record.
cancelListingDeletes(w, sender, listingId) ==
    LET listedItem == w.listings[listingId] IN
    IF listedItem.seller # sender THEN Revert(w, "Not seller")
    ELSE IF ~listedItem.active THEN Revert(w, "Not active")
    ELSE Done([w EXCEPT !.listings[listingId] = NoListing])

cancelListing(w, sender, listingId) ==
    LET listedItem == w.listings[listingId] IN
    IF listedItem.seller # sender THEN Revert(w, "Not seller")
    ELSE IF ~listedItem.active THEN Revert(w, "Not active")
    ELSE Done([w EXCEPT !.listings[listingId].active = FALSE])

\* Variant: listERC721 without the ownership check.
listERC721NoOwnerCheck(w, sender, tokenId, price) ==
    IF w.entered THEN Revert(w, "ReentrancyGuardReentrantCall")
    ELSE IF ~(price > 0) THEN Revert(w, "Price must be > 0")
    ELSE IF tokenId # Token721 \/ w.owner721 = ZERO
    THEN Revert(w, "ERC721NonexistentToken")
    ELSE IF ~(sender \in w.operatorApprovals721 \/ w.tokenApproval = Market)
    THEN Revert(w, "Marketplace not approved")
    ELSE LET id == w.listingIdCounter + 1 IN
         Done([w EXCEPT !.listingIdCounter = id,
                        !.listings[id] =
                            [listingId |-> id, seller |-> sender,
                             tokenAddress |-> "erc721", tokenId |-> tokenId,
                             quantity |-> 1, pricePerUnit |-> price,
                             isERC1155 |-> FALSE, active |-> TRUE],
                        !.created[id] = 1])

\* Variant: the listing is stored under the counter's value before the
\* increment.
listERC721PostIncrement(w, sender, tokenId, price) ==
    IF w.entered THEN Revert(w, "ReentrancyGuardReentrantCall")
    ELSE IF ~(price > 0) THEN Revert(w, "Price must be > 0")
    ELSE IF tokenId # Token721 \/ w.owner721 = ZERO
    THEN Revert(w, "ERC721NonexistentToken")
    ELSE IF w.owner721 # sender THEN Revert(w, "Not owner")
    ELSE IF ~(sender \in w.operatorApprovals721 \/ w.tokenApproval = Market)
    THEN Revert(w, "Marketplace not approved")
    ELSE LET id == w.listingIdCounter IN
         Done([w EXCEPT !.listingIdCounter = id + 1,
                        !.listings[id] =
                            [listingId |-> id, seller |-> sender,
                             tokenAddress |-> "erc721", tokenId |-> tokenId,
                             quantity |-> 1, pricePerUnit |-> price,
                             isERC1155 |-> FALSE, active |-> TRUE],
                        !.created[id] = 1])

\* Variant: the quantity field is filled from the price argument.
listERC721QuantityFromPrice(w, sender, tokenId, price) ==
    IF w.entered THEN Revert(w, "ReentrancyGuardReentrantCall")
    ELSE IF ~(price > 0) THEN Revert(w, "Price must be > 0")
    ELSE IF tokenId # Token721 \/ w.owner721 = ZERO
    THEN Revert(w, "ERC721NonexistentToken")
    ELSE IF w.owner721 # sender THEN Revert(w, "Not owner")
    ELSE IF ~(sender \in w.operatorApprovals721 \/ w.tokenApproval = Market)
    THEN Revert(w, "Marketplace not approved")
    ELSE LET id == w.listingIdCounter + 1 IN
         Done([w EXCEPT !.listingIdCounter = id,
                        !.listings[id] =
                            [listingId |-> id, seller |-> sender,
                             tokenAddress |-> "erc721", tokenId |-> tokenId,
                             quantity |-> price, pricePerUnit |-> price,
                             isERC1155 |-> FALSE, active |-> TRUE],
                        !.created[id] = 1])

listERC721(w, sender, tokenId, price) ==
    IF w.entered THEN Revert(w, "ReentrancyGuardReentrantCall")
    ELSE IF ~(price > 0) THEN Revert(w, "Price must be > 0")
    ELSE IF tokenId # Token721 \/ w.owner721 = ZERO
    THEN Revert(w, "ERC721NonexistentToken")
    ELSE IF w.owner721 # sender THEN Revert(w, "Not owner")
    ELSE IF ~(sender \in w.operatorApprovals721 \/ w.tokenApproval = Market)
    THEN Revert(w, "Marketplace not approved")
    ELSE LET id == w.listingIdCounter + 1 IN
         Done([w EXCEPT !.listingIdCounter = id,
                        !.listings[id] =
                            [listingId |-> id, seller |-> sender,
                             tokenAddress |-> "erc721", tokenId |-> tokenId,
                             quantity |-> 1, pricePerUnit |-> price,
                             isERC1155 |-> FALSE, active |-> TRUE],
                        !.created[id] = 1])

\* Variant: a new listing takes the slot of the latest listing when that one
\* is no longer active, instead of a fresh id.
listERC1155ReuseSlot(w, sender, tokenId, quantity, pricePerUnit) ==
    IF w.entered THEN Revert(w, "ReentrancyGuardReentrantCall")
    ELSE IF ~(pricePerUnit > 0) THEN Revert(w, "Price must be > 0")
    ELSE IF ~(quantity > 0) THEN Revert(w, "Quantity must be > 0")
    ELSE IF ~((IF tokenId = Token1155 THEN w.balances1155[sender] ELSE 0) >= quantity)
    THEN Revert(w, "Insufficient balance")
    ELSE IF ~IsOperator1155(w, sender, Market)
    THEN Revert(w, "Marketplace not approved")
    ELSE LET id == IF w.listingIdCounter > 0
                      /\ ~w.listings[w.listingIdCounter].active
                   THEN w.listingIdCounter
                   ELSE w.listingIdCounter + 1
         IN  Done([w EXCEPT !.listingIdCounter = id,
                            !.listings[id] =
                                [listingId |-> id, seller |-> sender,
                                 tokenAddress |-> "erc1155", tokenId |-> tokenId,
                                 quantity |-> quantity, pricePerUnit |-> pricePerUnit,
                                 isERC1155 |-> TRUE, active |-> TRUE],
                            !.created[id] = quantity])

listERC1155(w, sender, tokenId, quantity, pricePerUnit) ==
    IF w.entered THEN Revert(w, "ReentrancyGuardReentrantCall")
    ELSE IF ~(pricePerUnit > 0) THEN Revert(w, "Price must be > 0")
    ELSE IF ~(quantity > 0) THEN Revert(w, "Quantity must be > 0")
    ELSE IF ~((IF tokenId = Token1155 THEN w.balances1155[sender] ELSE 0) >= quantity)
    THEN Revert(w, "Insufficient balance")
    ELSE IF ~IsOperator1155(w, sender, Market)
    THEN Revert(w, "Marketplace not approved")
    ELSE LET id == w.listingIdCounter + 1 IN
         Done([w EXCEPT !.listingIdCounter = id,
                        !.listings[id] =
                            [listingId |-> id, seller |-> sender,
                             tokenAddress |-> "erc1155", tokenId |-> tokenId,
                             quantity |-> quantity, pricePerUnit |-> pricePerUnit,
                             isERC1155 |-> TRUE, active |-> TRUE],
                        !.created[id] = quantity])

\* Variant: the quantity check without its lower bound.
ValidQuantityNoLowerBound(listedItem, quantityToBuy) ==
    quantityToBuy <= listedItem.quantity

\* require(quantityToBuy > 0 && quantityToBuy <= listedItem.quantity)
ValidQuantity(listedItem, quantityToBuy) ==
    quantityToBuy > 0 /\ quantityToBuy <= listedItem.quantity

\* Solidity ^0.8 checks a multiplication of two amounts: the call reverts
\* with Panic(0x11) when the product does not fit the width.
MulOverflows(a, b) == a * b > MaxUint

\* Variant: the total is the unit price, whatever the quantity.
TotalPriceOneUnit(listedItem, quantityToBuy) ==
    listedItem.pricePerUnit

\* uint256 totalPrice = listedItem.pricePerUnit * quantityToBuy
TotalPrice(listedItem, quantityToBuy) ==
    listedItem.pricePerUnit * quantityToBuy

\* Variant: the excess payment is not returned.
buyItemSettleNoRefund(w0, w, sender, listingId, quantityToBuy, value, totalPrice, cb) ==
    LET listedItem == w.listings[listingId]
        remaining  == listedItem.quantity - quantityToBuy
        updated    == [w EXCEPT !.listings[listingId].quantity = remaining,
                                !.listings[listingId].active =
                                    IF remaining = 0 THEN FALSE ELSE @,
                                !.sold[listingId] = @ + quantityToBuy]
    IN  IF remaining < 0 THEN Revert(w0, "arithmetic underflow")
        ELSE Done([updated EXCEPT !.entered = FALSE])

\* Variant: the remaining quantity is not reduced.
buyItemSettleNoDecrement(w0, w, sender, listingId, quantityToBuy, value, totalPrice, cb) ==
    LET updated == [w EXCEPT !.sold[listingId] = @ + quantityToBuy]
    IN  IF value > totalPrice
        THEN LET refund == Transfer(updated, Market, sender, value - totalPrice, cb.accepts)
             IN  IF refund.ok THEN Done([refund.w EXCEPT !.entered = FALSE])
                 ELSE Revert(w0, refund.err)
        ELSE Done([updated EXCEPT !.entered = FALSE])

\* Variant: a listing whose quantity reaches zero is left active.
buyItemSettleNoDeactivate(w0, w, sender, listingId, quantityToBuy, value, totalPrice, cb) ==
    LET listedItem == w.listings[listingId]
        remaining  == listedItem.quantity - quantityToBuy
        updated    == [w EXCEPT !.listings[listingId].quantity = remaining,
                                !.sold[listingId] = @ + quantityToBuy]
    IN  IF remaining < 0 THEN Revert(w0, "arithmetic underflow")
        ELSE IF value > totalPrice
        THEN LET refund == Transfer(updated, Market, sender, value - totalPrice, cb.accepts)
             IN  IF refund.ok THEN Done([refund.w EXCEPT !.entered = FALSE])
                 ELSE Revert(w0, refund.err)
        ELSE Done([updated EXCEPT !.entered = FALSE])

\* Step 3 of buyItem and the refund, run on the ledger the asset transfer
\* left: listedItem is a storage reference, so it reads what a callback
\* wrote.
buyItemSettle(w0, w, sender, listingId, quantityToBuy, value, totalPrice, cb) ==
    LET listedItem == w.listings[listingId]
        remaining  == listedItem.quantity - quantityToBuy
        updated    == [w EXCEPT !.listings[listingId].quantity = remaining,
                                !.listings[listingId].active =
                                    IF remaining = 0 THEN FALSE ELSE @,
                                !.sold[listingId] = @ + quantityToBuy]
    IN  IF remaining < 0 THEN Revert(w0, "arithmetic underflow")
        ELSE IF value > totalPrice
        THEN LET refund == Transfer(updated, Market, sender, value - totalPrice, cb.accepts)
             IN  IF refund.ok THEN Done([refund.w EXCEPT !.entered = FALSE])
                 ELSE Revert(w0, refund.err)
        ELSE Done([updated EXCEPT !.entered = FALSE])

\* Variant: buyItem without the active check.
buyItemNoActiveCheck(w0, sender, listingId, quantityToBuy, value, cb) ==
    IF w0.bal[sender] < value THEN Revert(w0, "insufficient funds")
    ELSE IF w0.entered THEN Revert(w0, "ReentrancyGuardReentrantCall")
    ELSE
    LET w          == [Move(w0, sender, Market, value) EXCEPT !.entered = TRUE]
        listedItem == w.listings[listingId]
        totalPrice == TotalPrice(listedItem, quantityToBuy)
    IN  IF ~ValidQuantity(listedItem, quantityToBuy)
        THEN Revert(w0, "Invalid quantity")
        ELSE IF MulOverflows(listedItem.pricePerUnit, quantityToBuy)
        THEN Revert(w0, "Panic(0x11)")
        ELSE IF ~(value >= totalPrice) THEN Revert(w0, "Insufficient ETH sent")
        ELSE
        LET paid == Transfer(w, Market, listedItem.seller, totalPrice, cb.accepts) IN
        IF ~paid.ok THEN Revert(w0, paid.err)
        ELSE
        LET moved == IF listedItem.isERC1155
                     THEN safeTransferFrom1155(paid.w, Market, listedItem.seller,
                                               sender, quantityToBuy, cb)
                     ELSE safeTransferFrom721(paid.w, Market, listedItem.seller,
                                              sender, cb)
        IN  IF ~moved.ok THEN Revert(w0, moved.err)
            ELSE buyItemSettle(w0, moved.w, sender, listingId, quantityToBuy,
                               value, totalPrice, cb)

\* Variant: a failed asset transfer is ignored and the sale is settled.
buyItemIgnoresMoveFailure(w0, sender, listingId, quantityToBuy, value, cb) ==
    IF w0.bal[sender] < value THEN Revert(w0, "insufficient funds")
    ELSE IF w0.entered THEN Revert(w0, "ReentrancyGuardReentrantCall")
    ELSE
    LET w          == [Move(w0, sender, Market, value) EXCEPT !.entered = TRUE]
        listedItem == w.listings[listingId]
        totalPrice == TotalPrice(listedItem, quantityToBuy)
    IN  IF ~listedItem.active THEN Revert(w0, "Listing not active")
        ELSE IF ~ValidQuantity(listedItem, quantityToBuy)
        THEN Revert(w0, "Invalid quantity")
        ELSE IF MulOverflows(listedItem.pricePerUnit, quantityToBuy)
        THEN Revert(w0, "Panic(0x11)")
        ELSE IF ~(value >= totalPrice) THEN Revert(w0, "Insufficient ETH sent")
        ELSE
        LET paid == Transfer(w, Market, listedItem.seller, totalPrice, cb.accepts) IN
        IF ~paid.ok THEN Revert(w0, paid.err)
        ELSE
        LET moved == IF listedItem.isERC1155
                     THEN safeTransferFrom1155(paid.w, Market, listedItem.seller,
                                               sender, quantityToBuy, cb)
                     ELSE safeTransferFrom721(paid.w, Market, listedItem.seller,
                                              sender, cb)
        IN  buyItemSettle(w0, IF moved.ok THEN moved.w ELSE paid.w, sender,
                          listingId, quantityToBuy, value, totalPrice, cb)

\* Variant: the product is taken modulo 2^UintBits instead of being checked.
buyItemUncheckedMul(w0, sender, listingId, quantityToBuy, value, cb) ==
    IF w0.bal[sender] < value THEN Revert(w0, "insufficient funds")
    ELSE IF w0.entered THEN Revert(w0, "ReentrancyGuardReentrantCall")
    ELSE
    LET w          == [Move(w0, sender, Market, value) EXCEPT !.entered = TRUE]
        listedItem == w.listings[listingId]
        totalPrice == TotalPrice(listedItem, quantityToBuy) % (MaxUint + 1)
    IN  IF ~listedItem.active THEN Revert(w0, "Listing not active")
        ELSE IF ~ValidQuantity(listedItem, quantityToBuy)
        THEN Revert(w0, "Invalid quantity")
        ELSE IF ~(value >= totalPrice) THEN Revert(w0, "Insufficient ETH sent")
        ELSE
        LET paid == Transfer(w, Market, listedItem.seller, totalPrice, cb.accepts) IN
        IF ~paid.ok THEN Revert(w0, paid.err)
        ELSE
        LET moved == IF listedItem.isERC1155
                     THEN safeTransferFrom1155(paid.w, Market, listedItem.seller,
                                               sender, quantityToBuy, cb)
                     ELSE safeTransferFrom721(paid.w, Market, listedItem.seller,
                                              sender, cb)
        IN  IF ~moved.ok THEN Revert(w0, moved.err)
            ELSE buyItemSettle(w0, moved.w, sender, listingId, quantityToBuy,
                               value, totalPrice, cb)

\* Variant: buyItem without nonReentrant.
buyItemNoLock(w0, sender, listingId, quantityToBuy, value, cb) ==
    IF w0.bal[sender] < value THEN Revert(w0, "insufficient funds")
    ELSE
    LET w          == [Move(w0, sender, Market, value) EXCEPT !.entered = TRUE]
        listedItem == w.listings[listingId]
        totalPrice == TotalPrice(listedItem, quantityToBuy)
    IN  IF ~listedItem.active THEN Revert(w0, "Listing not active")
        ELSE IF ~ValidQuantity(listedItem, quantityToBuy)
        THEN Revert(w0, "Invalid quantity")
        ELSE IF MulOverflows(listedItem.pricePerUnit, quantityToBuy)
        THEN Revert(w0, "Panic(0x11)")
        ELSE IF ~(value >= totalPrice) THEN Revert(w0, "Insufficient ETH sent")
        ELSE
        LET paid == Transfer(w, Market, listedItem.seller, totalPrice, cb.accepts) IN
        IF ~paid.ok THEN Revert(w0, paid.err)
        ELSE
        LET moved == IF listedItem.isERC1155
                     THEN safeTransferFrom1155(paid.w, Market, listedItem.seller,
                                               sender, quantityToBuy, cb)
                     ELSE safeTransferFrom721(paid.w, Market, listedItem.seller,
                                              sender, cb)
        IN  IF ~moved.ok THEN Revert(w0, moved.err)
            ELSE buyItemSettle(w0, moved.w, sender, listingId, quantityToBuy,
                               value, totalPrice, cb)

buyItem(w0, sender, listingId, quantityToBuy, value, cb) ==
    IF w0.bal[sender] < value THEN Revert(w0, "insufficient funds")
    ELSE IF w0.entered THEN Revert(w0, "ReentrancyGuardReentrantCall")
    ELSE
    LET w          == [Move(w0, sender, Market, value) EXCEPT !.entered = TRUE]
        listedItem == w.listings[listingId]
        totalPrice == TotalPrice(listedItem, quantityToBuy)
    IN  IF ~listedItem.active THEN Revert(w0, "Listing not active")
        ELSE IF ~ValidQuantity(listedItem, quantityToBuy)
        THEN Revert(w0, "Invalid quantity")
        ELSE IF MulOverflows(listedItem.pricePerUnit, quantityToBuy)
        THEN Revert(w0, "Panic(0x11)")
        ELSE IF ~(value >= totalPrice) THEN Revert(w0, "Insufficient ETH sent")
        ELSE
        LET paid == Transfer(w, Market, listedItem.seller, totalPrice, cb.accepts) IN
        IF ~paid.ok THEN Revert(w0, paid.err)
        ELSE
        LET moved == IF listedItem.isERC1155
                     THEN safeTransferFrom1155(paid.w, Market, listedItem.seller,
                                               sender, quantityToBuy, cb)
                     ELSE safeTransferFrom721(paid.w, Market, listedItem.seller,
                                              sender, cb)
        IN  IF ~moved.ok THEN Revert(w0, moved.err)
            ELSE buyItemSettle(w0, moved.w, sender, listingId, quantityToBuy,
                               value, totalPrice, cb)

\* getAllActiveListings(): the first loop counts the active listings among
\* ids 1..total, the second copies them into an array of that length.
RECURSIVE CountActiveFrom(_, _, _, _)
CountActiveFrom(w, i, total, activeCount) ==
    IF ~(i <= total) THEN activeCount
    ELSE CountActiveFrom(w, i + 1, total,
                         IF w.listings[i].active THEN activeCount + 1
                         ELSE activeCount)

RECURSIVE FillActiveFrom(_, _, _, _, _)
FillActiveFrom(w, i, total, activeListings, currentIndex) ==
    IF ~(i <= total) THEN activeListings
    ELSE IF w.listings[i].active
    THEN FillActiveFrom(w, i + 1, total,
                        [activeListings EXCEPT ![currentIndex + 1] = w.listings[i]],
                        currentIndex + 1)
    ELSE FillActiveFrom(w, i + 1, total, activeListings, currentIndex)

\* Variant: the array is sized by the number of listings ever created.
getAllActiveListingsSizedByTotal(w) ==
    LET total == w.listingIdCounter
    IN  FillActiveFrom(w, 1, total, [k \in 1..total |-> NoListing], 0)

getAllActiveListings(w) ==
    LET total       == w.listingIdCounter
        activeCount == CountActiveFrom(w, 1, total, 0)
    IN  FillActiveFrom(w, 1, total, [k \in 1..activeCount |-> NoListing], 0)

\* onERC1155Received / onERC721Received of a recipient with code.  It may
\* accept, refuse, or call back into the marketplace first; a callback that
\* reverts makes the hook revert.
Callback(w, to, cb) ==
    IF to \notin Hooked THEN Done(w)
    ELSE IF cb.kind = "accept" THEN Done(w)
    ELSE IF cb.kind = "cancelListing"
    THEN LET r == cancelListing(w, to, cb.id)
         IN  IF r.ok THEN Done(r.w) ELSE Revert(w, r.err)
    ELSE IF cb.kind = "buyItem"
    THEN LET r == buyItem(w, to, cb.id, cb.qty, cb.value, NoCallback)
         IN  IF r.ok THEN Done(r.w) ELSE Revert(w, r.err)
    ELSE IF cb.kind = "listERC1155"
    THEN LET r == listERC1155(w, to, Token1155, cb.qty, cb.value)
         IN  IF r.ok THEN Done(r.w) ELSE Revert(w, r.err)
    ELSE IF cb.kind = "listERC721"
    THEN LET r == listERC721(w, to, Token721, cb.value)
         IN  IF r.ok THEN Done(r.w) ELSE Revert(w, r.err)
    ELSE IF cb.kind = "safeTransferFrom1155"
    THEN safeTransferFrom1155(w, to, to, HookPayee, cb.qty, NoCallback)
    ELSE IF cb.kind = "safeTransferFrom721"
    THEN safeTransferFrom721(w, to, to, HookPayee, NoCallback)
    ELSE IF cb.kind = "send"
    THEN Transfer(w, to, HookPayee, cb.value, TRUE)
    ELSE Revert(w, "receiver rejected tokens")


\* ---------------------------------------------- single-asset marketplace
\* The zero value of the single-asset Listing struct.
NoTokenListing == [seller |-> ZERO, tokenId |-> 0, price |-> 0, active |-> FALSE]

RECURSIVE purchase(_, _, _, _, _)
RECURSIVE FeeCallback(_, _, _)

list(w, sender, tokenId, price) ==
    IF ~(price > 0) THEN Revert(w, "Price must be > 0")
    ELSE IF tokenId # Token721 \/ w.owner721 = ZERO
    THEN Revert(w, "ERC721NonexistentToken")
    ELSE IF w.owner721 # sender THEN Revert(w, "Not token owner")
    ELSE IF ~(w.tokenApproval = Market \/ sender \in w.operatorApprovals721)
    THEN Revert(w, "Marketplace not approved")
    ELSE Done([w EXCEPT !.tokenListings[tokenId] =
                            [seller |-> sender, tokenId |-> tokenId,
                             price |-> price, active |-> TRUE],
                        !.activeTokenIds = Append(@, tokenId)])

cancel(w, sender, tokenId) ==
    LET l == w.tokenListings[tokenId] IN
    IF ~l.active THEN Revert(w, "Not listed")
    ELSE IF l.seller # sender THEN Revert(w, "Not seller")
    ELSE Done([w EXCEPT !.tokenListings[tokenId].active = FALSE])

\* getActiveListings(): the first loop counts the entries of activeTokenIds
\* whose listing is active, the second copies those listings.
RECURSIVE CountActiveTokens(_, _, _)
CountActiveTokens(w, i, count) ==
    IF ~(i < Len(w.activeTokenIds)) THEN count
    ELSE CountActiveTokens(w, i + 1,
             IF w.tokenListings[w.activeTokenIds[i + 1]].active THEN count + 1
             ELSE count)

RECURSIVE FillActiveTokens(_, _, _, _)
FillActiveTokens(w, i, results, idx) ==
    IF ~(i < Len(w.activeTokenIds)) THEN results
    ELSE LET t == w.activeTokenIds[i + 1] IN
         IF w.tokenListings[t].active
         THEN FillActiveTokens(w, i + 1,
                               [results EXCEPT ![idx + 1] = w.tokenListings[t]],
                               idx + 1)
         ELSE FillActiveTokens(w, i + 1, results, idx)

getActiveListings(w) ==
    LET count == CountActiveTokens(w, 0, 0)
    IN  FillActiveTokens(w, 0, [k \in 1..count |-> NoTokenListing], 0)

\* Variant: transferAsset without the owner-or-approved check.
transferAssetNoAuthCheck(w0, sender, value, from, to, tokenId, cb) ==
    IF w0.bal[sender] < value THEN Revert(w0, "insufficient funds")
    ELSE IF w0.entered721 THEN Revert(w0, "ReentrancyGuardReentrantCall")
    ELSE IF tokenId # Token721 \/ w0.owner721 = ZERO
    THEN Revert(w0, "ERC721NonexistentToken")
    ELSE IF ~(value >= w0.transferFee) THEN Revert(w0, "Insufficient transfer fee")
    ELSE IF to = ZERO THEN Revert(w0, "ERC721InvalidReceiver")
    ELSE IF w0.owner721 # from THEN Revert(w0, "ERC721IncorrectOwner")
    ELSE
    LET feeRequired == w0.transferFee
        w     == [Move(w0, sender, Erc721, value) EXCEPT
                     !.entered721 = TRUE, !.owner721 = to, !.tokenApproval = ZERO]
        feed  == IF feeRequired > 0
                 THEN FeeCallback(Move(w, Erc721, w.platformOwner, feeRequired),
                                  w.platformOwner, cb)
                 ELSE Done(w)
        refund == value - feeRequired
    IN  IF ~feed.ok THEN Revert(w0, feed.err)
        ELSE IF refund > 0 /\ (sender = Market \/ (sender \in Hooked /\ ~cb.accepts))
        THEN Revert(w0, "FailedCall")
        ELSE Done([Move(feed.w, Erc721, sender, refund) EXCEPT !.entered721 = FALSE])

\* Variant: transferAsset keeps what was paid above the fee.
transferAssetNoRefund(w0, sender, value, from, to, tokenId, cb) ==
    IF w0.bal[sender] < value THEN Revert(w0, "insufficient funds")
    ELSE IF w0.entered721 THEN Revert(w0, "ReentrancyGuardReentrantCall")
    ELSE IF tokenId # Token721 \/ w0.owner721 = ZERO
    THEN Revert(w0, "ERC721NonexistentToken")
    ELSE IF ~IsAuthorized721(w0, w0.owner721, sender)
    THEN Revert(w0, "Not approved or owner")
    ELSE IF ~(value >= w0.transferFee) THEN Revert(w0, "Insufficient transfer fee")
    ELSE IF to = ZERO THEN Revert(w0, "ERC721InvalidReceiver")
    ELSE IF w0.owner721 # from THEN Revert(w0, "ERC721IncorrectOwner")
    ELSE
    LET feeRequired == w0.transferFee
        w     == [Move(w0, sender, Erc721, value) EXCEPT
                     !.entered721 = TRUE, !.owner721 = to, !.tokenApproval = ZERO]
        feed  == IF feeRequired > 0
                 THEN FeeCallback(Move(w, Erc721, w.platformOwner, feeRequired),
                                  w.platformOwner, cb)
                 ELSE Done(w)
    IN  IF ~feed.ok THEN Revert(w0, feed.err)
        ELSE Done([feed.w EXCEPT !.entered721 = FALSE])

\* Variant: the token is taken from whoever holds it, `from` being ignored.
transferAssetFromHolder(w0, sender, value, from, to, tokenId, cb) ==
    IF w0.bal[sender] < value THEN Revert(w0, "insufficient funds")
    ELSE IF w0.entered721 THEN Revert(w0, "ReentrancyGuardReentrantCall")
    ELSE IF tokenId # Token721 \/ w0.owner721 = ZERO
    THEN Revert(w0, "ERC721NonexistentToken")
    ELSE IF ~IsAuthorized721(w0, w0.owner721, sender)
    THEN Revert(w0, "Not approved or owner")
    ELSE IF ~(value >= w0.transferFee) THEN Revert(w0, "Insufficient transfer fee")
    ELSE IF to = ZERO THEN Revert(w0, "ERC721InvalidReceiver")
    ELSE
    LET feeRequired == w0.transferFee
        w     == [Move(w0, sender, Erc721, value) EXCEPT
                     !.entered721 = TRUE, !.owner721 = to, !.tokenApproval = ZERO]
        feed  == IF feeRequired > 0
                 THEN FeeCallback(Move(w, Erc721, w.platformOwner, feeRequired),
                                  w.platformOwner, cb)
                 ELSE Done(w)
        refund == value - feeRequired
    IN  IF ~feed.ok THEN Revert(w0, feed.err)
        ELSE IF refund > 0 /\ (sender = Market \/ (sender \in Hooked /\ ~cb.accepts))
        THEN Revert(w0, "FailedCall")
        ELSE Done([Move(feed.w, Erc721, sender, refund) EXCEPT !.entered721 = FALSE])

\* BSATSF_ERC721.transferAsset(from, to, tokenId), called by sender with
\* `value` attached.  sendValue forwards all gas: code at the platform owner
\* runs when the fee arrives and may call back into the marketplace.
transferAsset(w0, sender, value, from, to, tokenId, cb) ==
    IF w0.bal[sender] < value THEN Revert(w0, "insufficient funds")
    ELSE IF w0.entered721 THEN Revert(w0, "ReentrancyGuardReentrantCall")
    ELSE IF tokenId # Token721 \/ w0.owner721 = ZERO
    THEN Revert(w0, "ERC721NonexistentToken")
    ELSE IF ~IsAuthorized721(w0, w0.owner721, sender)
    THEN Revert(w0, "Not approved or owner")
    ELSE IF ~(value >= w0.transferFee) THEN Revert(w0, "Insufficient transfer fee")
    ELSE IF to = ZERO THEN Revert(w0, "ERC721InvalidReceiver")
    ELSE IF w0.owner721 # from THEN Revert(w0, "ERC721IncorrectOwner")
    ELSE
    LET feeRequired == w0.transferFee
        w     == [Move(w0, sender, Erc721, value) EXCEPT
                     !.entered721 = TRUE, !.owner721 = to, !.tokenApproval = ZERO]
        feed  == IF feeRequired > 0
                 THEN FeeCallback(Move(w, Erc721, w.platformOwner, feeRequired),
                                  w.platformOwner, cb)
                 ELSE Done(w)
        refund == value - feeRequired
    IN  IF ~feed.ok THEN Revert(w0, feed.err)
        ELSE IF refund > 0 /\ (sender = Market \/ (sender \in Hooked /\ ~cb.accepts))
        THEN Revert(w0, "FailedCall")
        ELSE Done([Move(feed.w, Erc721, sender, refund) EXCEPT !.entered721 = FALSE])

\* Variant: the seller is paid whatever was attached beyond the fee.
purchasePaysSellerRest(w0, sender, tokenId, value, cb) ==
    IF w0.bal[sender] < value THEN Revert(w0, "insufficient funds")
    ELSE
    LET w   == Move(w0, sender, Market, value)
        l   == w.tokenListings[tokenId]
        fee == w.transferFee
    IN  IF ~l.active THEN Revert(w0, "Not listed")
        ELSE IF ~(value >= l.price + fee) THEN Revert(w0, "Insufficient payment")
        ELSE
        LET paid == Transfer(w, Market, l.seller, value - fee, cb.accepts) IN
        IF ~paid.ok THEN Revert(w0, paid.err)
        ELSE
        LET moved == transferAsset(paid.w, Market, fee, l.seller, sender, tokenId, cb)
        IN  IF ~moved.ok THEN Revert(w0, moved.err)
            ELSE Done([moved.w EXCEPT !.tokenListings[tokenId].active = FALSE])

purchase(w0, sender, tokenId, value, cb) ==
    IF w0.bal[sender] < value THEN Revert(w0, "insufficient funds")
    ELSE
    LET w   == Move(w0, sender, Market, value)
        l   == w.tokenListings[tokenId]
        fee == w.transferFee
    IN  IF ~l.active THEN Revert(w0, "Not listed")
        ELSE IF ~(value >= l.price + fee) THEN Revert(w0, "Insufficient payment")
        ELSE
        LET paid == Transfer(w, Market, l.seller, l.price, cb.accepts) IN
        IF ~paid.ok THEN Revert(w0, paid.err)
        ELSE
        LET moved == transferAsset(paid.w, Market, fee, l.seller, sender, tokenId, cb)
        IN  IF ~moved.ok THEN Revert(w0, moved.err)
            ELSE Done([moved.w EXCEPT !.tokenListings[tokenId].active = FALSE])

\* receive() of a platform owner with code, run when the fee arrives.
FeeCallback(w, to, cb) ==
    IF to \notin Hooked THEN Done(w)
    ELSE IF ~cb.accepts THEN Revert(w, "payment refused")
    ELSE IF cb.kind = "accept" THEN Done(w)
    ELSE IF cb.kind = "list"
    THEN LET r == list(w, to, cb.id, cb.value)
         IN  IF r.ok THEN Done(r.w) ELSE Revert(w, r.err)
    ELSE IF cb.kind = "cancel"
    THEN LET r == cancel(w, to, cb.id)
         IN  IF r.ok THEN Done(r.w) ELSE Revert(w, r.err)
    ELSE IF cb.kind = "purchase"
    THEN LET r == purchase(w, to, cb.id, cb.value, NoCallback)
         IN  IF r.ok THEN Done(r.w) ELSE Revert(w, r.err)
    ELSE Revert(w, "payment refused")

\* ERC721.transferFrom(from, to, tokenId), which BSATSF_ERC721 inherits
\* unchanged: no payment is attached and none is asked for.
transferFrom721(w, operator, from, to) ==
    IF to = ZERO THEN Revert(w, "ERC721InvalidReceiver")
    ELSE IF w.owner721 = ZERO THEN Revert(w, "ERC721NonexistentToken")
    ELSE IF ~IsAuthorized721(w, w.owner721, operator)
    THEN Revert(w, "ERC721InsufficientApproval")
    ELSE IF w.owner721 # from THEN Revert(w, "ERC721IncorrectOwner")
    ELSE Done([w EXCEPT !.owner721 = to, !.tokenApproval = ZERO])

\* Variant: setTransferFee without onlyOwner.
setTransferFeeAnyCaller(w, sender, fee) ==
    Done([w EXCEPT !.transferFee = fee])

setTransferFee(w, sender, fee) ==
    IF sender # w.platformOwner THEN Revert(w, "OwnableUnauthorizedAccount")
    ELSE Done([w EXCEPT !.transferFee = fee])

\* --------------------------------------------------------- token holders
\* setApprovalForAll(marketplace, approved) on either token contract and
\* approve(marketplace, tokenId) on the ERC-721 one, as the client sends
\* them before listing.
setApprovalForAll1155(w, sender, approved) ==
    Done([w EXCEPT !.operatorApprovals1155 =
             IF approved THEN @ \cup {sender} ELSE @ \ {sender}])

setApprovalForAll721(w, sender, approved) ==
    Done([w EXCEPT !.operatorApprovals721 =
             IF approved THEN @ \cup {sender} ELSE @ \ {sender}])

approve721(w, sender, to) ==
    IF w.owner721 = ZERO THEN Revert(w, "ERC721NonexistentToken")
    ELSE IF w.owner721 # sender THEN Revert(w, "ERC721InvalidApprover")
    ELSE Done([w EXCEPT !.tokenApproval = to])

\* ------------------------------------------------------------------ calls
Idle ==
    [op |-> "none", ok |-> TRUE, err |-> "", sender |-> ZERO, id |-> 0,
     qty |-> 0, value |-> 0, cb |-> "none", from |-> ZERO, to |-> ZERO]

Call(op, sender, id, qty, value, cb, r) ==
    [op |-> op, ok |-> r.ok, err |-> r.err, sender |-> sender, id |-> id,
     qty |-> qty, value |-> value, cb |-> cb, from |-> ZERO, to |-> ZERO]

\* The hooks a buyer can run.  An account without code runs none.
\* The hook is reached only by a call on an active listing; `accepts`
\* (whether code at an account takes a plain payment) only matters when an
\* account with code is paid: the seller, or the buyer's refund.
Callbacks(sender, listingId) ==
    LET plain(k) == [kind |-> k, id |-> 0, qty |-> 0, value |-> 0, accepts |-> TRUE]
    IN  IF ~listings[listingId].active THEN {NoCallback}
        ELSE IF sender \in Hooked
        THEN {plain("accept"), plain("reject"),
              [plain("accept") EXCEPT !.accepts = FALSE],
              [plain("buyItem") EXCEPT !.id = listingId, !.qty = 1, !.value = MaxValue]}
             \cup {[plain("cancelListing") EXCEPT !.id = i] : i \in 1..MaxListings}
             \cup {IF listings[listingId].isERC1155
                   THEN [plain("safeTransferFrom1155") EXCEPT !.qty = 1]
                   ELSE plain("safeTransferFrom721"),
                   [plain("send") EXCEPT !.value = 1]}
             \cup {IF listings[listingId].isERC1155
                   THEN [plain("listERC1155") EXCEPT !.qty = 1, !.value = p]
                   ELSE [plain("listERC721") EXCEPT !.value = p] : p \in Prices}
        ELSE IF listings[listingId].seller \in Hooked
        THEN {plain("accept"), [plain("accept") EXCEPT !.accepts = FALSE]}
        ELSE {plain("accept")}

Init ==
    /\ variant \in {"multi", "single"}
    /\ marketBalance = 0
    /\ received = [a \in Accounts |-> 0]
    /\ owner721 = Minter721
    /\ tokenApproval = ZERO
    /\ operatorApprovals721 = {}
    /\ balances1155 = [a \in Accounts |-> IF a = Minter1155 THEN MaxQty ELSE 0]
    /\ operatorApprovals1155 = {}
    /\ listings = [i \in ListingIds |-> NoListing]
    /\ listingIdCounter = 0
    /\ entered = FALSE
    /\ tokenListings = [t \in TokenIds |-> NoTokenListing]
    /\ activeTokenIds = <<>>
    /\ transferFee = DefaultTransferFee
    /\ platformOwner \in (IF variant = "single" THEN Accounts ELSE {Minter721})
    /\ created = [i \in ListingIds |-> 0]
    /\ sold = [i \in ListingIds |-> 0]
    /\ last = Idle

ListERC721(sender, tokenId, price) ==
    /\ variant = "multi"
    /\ listingIdCounter < MaxListings
    /\ LET r == listERC721(Ledger, sender, tokenId, price) IN
       /\ Commit(r.w)
       /\ last' = Call("listERC721", sender, tokenId, 1, price, "none", r)
    /\ UNCHANGED variant

ListERC1155(sender, tokenId, quantity, pricePerUnit) ==
    /\ variant = "multi"
    /\ listingIdCounter < MaxListings
    /\ LET r == listERC1155(Ledger, sender, tokenId, quantity, pricePerUnit) IN
       /\ Commit(r.w)
       /\ last' = Call("listERC1155", sender, tokenId, quantity, pricePerUnit, "none", r)
    /\ UNCHANGED variant

BuyItem(sender, listingId, quantityToBuy, value, cb) ==
    /\ variant = "multi"
    /\ LET r == buyItem(Ledger, sender, listingId, quantityToBuy, value, cb) IN
       /\ Commit(r.w)
       /\ last' = Call("buyItem", sender, listingId, quantityToBuy, value, cb.kind, r)
    /\ UNCHANGED variant

CancelListing(sender, listingId) ==
    /\ variant = "multi"
    /\ LET r == cancelListing(Ledger, sender, listingId) IN
       /\ Commit(r.w)
       /\ last' = Call("cancelListing", sender, listingId, 0, 0, "none", r)
    /\ UNCHANGED variant

SetApprovalForAll1155(sender, approved) ==
    /\ variant = "multi"
    /\ LET r == setApprovalForAll1155(Ledger, sender, approved) IN
       /\ Commit(r.w)
       /\ last' = Call("setApprovalForAll1155", sender, 0, 0, 0, "none", r)
    /\ UNCHANGED variant

SetApprovalForAll721(sender, approved) ==
    /\ LET r == setApprovalForAll721(Ledger, sender, approved) IN
       /\ Commit(r.w)
       /\ last' = Call("setApprovalForAll721", sender, 0, 0, 0, "none", r)
    /\ UNCHANGED variant

Approve721(sender, to) ==
    /\ LET r == approve721(Ledger, sender, to) IN
       /\ Commit(r.w)
       /\ last' = Call("approve721", sender, 0, 0, 0, "none", r)
    /\ UNCHANGED variant

\* What code at the platform owner can do when the fee arrives, and whether
\* code at the seller takes the price.
FeeCallbacks(tokenId) ==
    LET plain(k) == [kind |-> k, id |-> 0, qty |-> 0, value |-> 0, accepts |-> TRUE]
        refuse   == [plain("accept") EXCEPT !.accepts = FALSE]
    IN  IF ~tokenListings[tokenId].active THEN {NoCallback}
        ELSE IF platformOwner \in Hooked
        THEN {plain("accept"), refuse,
              [plain("cancel") EXCEPT !.id = tokenId],
              [plain("purchase") EXCEPT !.id = tokenId, !.value = MaxValue]}
             \cup {[plain("list") EXCEPT !.id = tokenId, !.value = p] : p \in Prices}
        ELSE IF tokenListings[tokenId].seller \in Hooked
        THEN {plain("accept"), refuse}
        ELSE {plain("accept")}

\* Payments attached to a direct transferAsset: below, at and above the fee.
TransferValues == 0..(DefaultTransferFee + 1)

\* Whether code at the platform owner or at the caller takes the payment
\* transferAsset sends it.
TransferCallbacks(sender) ==
    IF platformOwner \in Hooked \/ sender \in Hooked
    THEN {NoCallback, [NoCallback EXCEPT !.kind = "refuse", !.accepts = FALSE]}
    ELSE {NoCallback}

TransferAsset(sender, from, to, tokenId, value, cb) ==
    /\ variant = "single"
    /\ LET r == transferAsset(Ledger, sender, value, from, to, tokenId, cb) IN
       /\ Commit(r.w)
       /\ last' = [Call("transferAsset", sender, tokenId, 1, value, cb.kind, r)
                      EXCEPT !.from = from, !.to = to]
    /\ UNCHANGED variant

\* A holder moving the unique asset with the inherited transferFrom, as the
\* client does.  Tokens of the multi-asset deployment move through the
\* marketplace only.
TransferFrom721(sender, from, to) ==
    /\ variant = "single"
    /\ LET r == transferFrom721(Ledger, sender, from, to) IN
       /\ Commit(r.w)
       /\ last' = [Call("transferFrom", sender, Token721, 1, 0, "none", r)
                      EXCEPT !.from = from, !.to = to]
    /\ UNCHANGED variant

List(sender, tokenId, price) ==
    /\ variant = "single"
    /\ Len(activeTokenIds) < MaxListings
    /\ LET r == list(Ledger, sender, tokenId, price) IN
       /\ Commit(r.w)
       /\ last' = Call("list", sender, tokenId, 1, price, "none", r)
    /\ UNCHANGED variant

Cancel(sender, tokenId) ==
    /\ variant = "single"
    /\ LET r == cancel(Ledger, sender, tokenId) IN
       /\ Commit(r.w)
       /\ last' = Call("cancel", sender, tokenId, 0, 0, "none", r)
    /\ UNCHANGED variant

Purchase(sender, tokenId, value, cb) ==
    /\ variant = "single"
    /\ LET r == purchase(Ledger, sender, tokenId, value, cb) IN
       /\ Commit(r.w)
       /\ last' = Call("purchase", sender, tokenId, 1, value, cb.kind, r)
    /\ UNCHANGED variant

SetTransferFee(sender, fee) ==
    /\ variant = "single"
    /\ LET r == setTransferFee(Ledger, sender, fee) IN
       /\ Commit(r.w)
       /\ last' = Call("setTransferFee", sender, 0, 0, fee, "none", r)
    /\ UNCHANGED variant

\* The call has returned; the next one can be made.
Return ==
    /\ last # Idle
    /\ last' = Idle
    /\ received' = [a \in Accounts |-> 0]
    /\ UNCHANGED <<variant, marketBalance, owner721, tokenApproval,
                   operatorApprovals721, balances1155, operatorApprovals1155,
                   listings, listingIdCounter, entered, tokenListings,
                   activeTokenIds, transferFee, platformOwner, created, sold>>

\* Calls are made one at a time: the next one starts once the previous one
\* has returned.
Callers == IF last = Idle THEN Accounts ELSE {}

\* In the single-asset deployment every account approves and lists.
Approvers721  == Callers \cap (IF variant = "single" THEN Accounts
                               ELSE {Minter721, Minter1155})
\* Accounts that give the marketplace operator approval over their ERC-721
\* tokens; the others approve token by token.
Operators721  == Callers \cap (IF variant = "single" THEN {Minter721}
                               ELSE {Minter721, Minter1155})
\* Addresses a token owner names in approve(): none, the marketplace, or
\* (for a direct transferAsset by an approved address) another account.
Spenders == {ZERO, Market} \cup (IF variant = "single" THEN {HookPayee} ELSE {})
Approvers1155 == Callers \cap {Minter1155}

Next ==
    \/ Return
    \/ \E a \in Callers, p \in Prices \cup {0} : ListERC721(a, Token721, p)
    \/ \E a \in Callers, q \in Quantities, p \in Prices \cup {0} :
          ListERC1155(a, Token1155, q, p)
    \/ \E a \in Callers, i \in ListingIds, q \in Quantities, v \in Values :
          \E cb \in Callbacks(a, i) : BuyItem(a, i, q, v, cb)
    \/ \E a \in Callers, i \in ListingIds : CancelListing(a, i)
    \/ \E a \in Callers, t \in TokenIds, p \in Prices \cup {0} : List(a, t, p)
    \/ \E a \in Callers, t \in TokenIds : Cancel(a, t)
    \/ \E a \in Callers, t \in TokenIds, v \in Values :
          \E cb \in FeeCallbacks(t) : Purchase(a, t, v, cb)
    \/ \E a \in Callers, f \in {0, DefaultTransferFee} : SetTransferFee(a, f)
    \/ \E a \in Callers, to \in Accounts \cup {ZERO}, v \in TransferValues :
          \E from \in {owner721, a}, cb \in TransferCallbacks(a) :
             TransferAsset(a, from, to, Token721, v, cb)
    \/ \E a \in Callers, to \in Accounts : TransferFrom721(a, owner721, to)
    \/ \E a \in Approvers1155, b \in BOOLEAN : SetApprovalForAll1155(a, b)
    \/ \E a \in Operators721, b \in BOOLEAN : SetApprovalForAll721(a, b)
    \/ \E a \in Approvers721, t \in Spenders : Approve721(a, t)

Spec == Init /\ [][Next]_vars

\* ------------------------------------------------- amounts near the width
\* The multi-asset marketplace with fungible listings whose unit price is
\* large enough for price * quantity to pass MaxUint.
WidePrices == {2, (MaxUint + 1) \div 2}

InitOverflow == Init /\ variant = "multi"

NextOverflow ==
    \/ Return
    \/ \E a \in Approvers1155, b \in BOOLEAN : SetApprovalForAll1155(a, b)
    \/ \E a \in Callers, q \in Quantities, p \in WidePrices :
          ListERC1155(a, Token1155, q, p)
    \/ \E a \in Callers, i \in ListingIds, q \in Quantities, v \in Values :
          BuyItem(a, i, q, v, NoCallback)

SpecOverflow == InitOverflow /\ [][NextOverflow]_vars

\* ------------------------------------------------------------ properties
BuyItemOk == last'.op = "buyItem" /\ last'.ok

\* A rejected call leaves the ledger as it was.
LedgerUnchanged ==
    /\ received' = [a \in Accounts |-> 0]
    /\ UNCHANGED <<marketBalance, owner721, tokenApproval, operatorApprovals721,
                   balances1155, operatorApprovals1155, listings,
                   listingIdCounter, entered, tokenListings, activeTokenIds,
                   transferFee, platformOwner>>

\* C1 as stated: every successful buyItem, by any buyer including the seller,
\* raises the seller's balance by pricePerUnit * quantityToBuy and costs the
\* buyer exactly that much, the rest of the payment being returned.
C1_ConservationAnyBuyer ==
    [][BuyItemOk =>
        LET listedItem == listings[last'.id]
            totalPrice == listedItem.pricePerUnit * last'.qty
        IN  /\ received'[listedItem.seller] = totalPrice
            /\ received'[last'.sender] = 0 - totalPrice
            /\ marketBalance' = marketBalance]_vars

\* C1 amended: every successful buyItem by a buyer other than the seller
\* raises the seller's balance by exactly pricePerUnit * quantityToBuy and
\* lowers the buyer's by exactly that much; when the buyer is the seller the
\* price comes back to the same account, whose balance is unchanged.  No
\* other balance changes and the marketplace keeps nothing.  Payments the
\* buyer's receive hook makes on its own account are set aside.
C1_Conservation ==
    [][(BuyItemOk /\ last'.cb # "send") =>
        LET listedItem == listings[last'.id]
            totalPrice == listedItem.pricePerUnit * last'.qty
            seller     == listedItem.seller
            buyer      == last'.sender
        IN  /\ buyer # seller => /\ received'[seller] = totalPrice
                                 /\ received'[buyer] = 0 - totalPrice
            /\ buyer = seller => received'[buyer] = 0
            /\ \A a \in Accounts \ {buyer, seller} : received'[a] = 0
            /\ marketBalance' = marketBalance]_vars

\* A buyer other than the seller has bought a unit and overpaid; the seller
\* holds the price and the buyer got the excess back.
C1_Witness ==
    /\ last.op = "buyItem" /\ last.ok
    /\ last.sender # listings[last.id].seller
    /\ last.value > listings[last.id].pricePerUnit * last.qty
    /\ received[listings[last.id].seller] = listings[last.id].pricePerUnit
    /\ received[last.sender] = 0 - listings[last.id].pricePerUnit

\* C2 as stated: every successful buyItem adds quantityToBuy of the listed
\* asset to the buyer and takes as much from the seller (for a unique asset
\* the buyer becomes the owner); no other holding changes.
C2_AssetsAnyBuyer ==
    [][BuyItemOk =>
        LET listedItem == listings[last'.id]
            seller     == listedItem.seller
            buyer      == last'.sender
        IN  IF listedItem.isERC1155
            THEN /\ balances1155'[buyer] = balances1155[buyer] + last'.qty
                 /\ balances1155'[seller] = balances1155[seller] - last'.qty
                 /\ \A a \in Accounts \ {buyer, seller} :
                        balances1155'[a] = balances1155[a]
                 /\ owner721' = owner721
            ELSE /\ owner721 = seller /\ owner721' = buyer
                 /\ balances1155' = balances1155]_vars

\* C2 amended: every successful buyItem by a buyer other than the seller adds
\* quantityToBuy of the listed asset to the buyer and takes as much from the
\* seller; when the buyer is the seller the holdings are unchanged.  For a
\* unique asset the buyer is the owner afterwards.  No other holding changes.
\* Transfers the buyer's receive hook makes on its own account are set aside.
C2_Assets ==
    [][(BuyItemOk /\ last'.cb \notin {"safeTransferFrom1155", "safeTransferFrom721"}) =>
        LET listedItem == listings[last'.id]
            seller     == listedItem.seller
            buyer      == last'.sender
        IN  IF listedItem.isERC1155
            THEN /\ buyer # seller =>
                        /\ balances1155'[buyer] = balances1155[buyer] + last'.qty
                        /\ balances1155'[seller] = balances1155[seller] - last'.qty
                 /\ buyer = seller => balances1155'[buyer] = balances1155[buyer]
                 /\ \A a \in Accounts \ {buyer, seller} :
                        balances1155'[a] = balances1155[a]
                 /\ owner721' = owner721
            ELSE /\ owner721 = seller /\ owner721' = buyer
                 /\ balances1155' = balances1155]_vars

\* A buyer other than the seller has bought every unit of a fungible listing
\* and holds them.
C2_Witness ==
    /\ last.op = "buyItem" /\ last.ok
    /\ listings[last.id].isERC1155
    /\ last.sender # listings[last.id].seller
    /\ last.qty = MaxQty
    /\ balances1155[last.sender] = MaxQty
    /\ balances1155[listings[last.id].seller] = 0

\* C3: the units sold by the successful purchases of a listing never exceed
\* the units it was created with, and a purchase that asks for more than the
\* units still unsold is rejected.
C3_NoDoubleSpend ==
    [][/\ \A id \in ListingIds : sold'[id] <= created'[id]
       /\ (last'.op = "buyItem"
            /\ last'.qty > created[last'.id] - sold[last'.id]) => ~last'.ok]_vars

\* After an earlier purchase of a listing that is still active, a purchase
\* asking for more than remains has been rejected.
C3_Witness ==
    /\ last.op = "buyItem" /\ ~last.ok /\ last.err = "Invalid quantity"
    /\ listings[last.id].active
    /\ sold[last.id] > 0
    /\ last.qty > created[last.id] - sold[last.id]
    /\ last.qty <= created[last.id]

\* C4: a listing of the multi-asset marketplace that is inactive is inactive
\* after every operation, the creation of later listings included.
C4_MonotonicDeactivation ==
    [][\A id \in 1..listingIdCounter :
          ~listings[id].active => ~listings'[id].active]_vars

\* A listing is inactive and a later listing has been created after it.
C4_Witness ==
    /\ variant = "multi"
    /\ listingIdCounter = 2
    /\ ~listings[1].active /\ listings[2].active
    /\ last.op \in {"listERC721", "listERC1155"} /\ last.ok

\* C5 as stated: a listing of the single-asset marketplace that is inactive
\* stays inactive, with the record it had, after every operation, a new
\* list call on the same asset included.
C5_MonotonicDeactivation721 ==
    [][\A tokenId \in TokenIds :
          (tokenListings[tokenId].seller # ZERO /\ ~tokenListings[tokenId].active)
              => tokenListings'[tokenId] = tokenListings[tokenId]]_vars

\* C6: every active listing of the multi-asset marketplace has a price
\* above zero and a quantity above zero.
C6_ActiveWellFormed ==
    \A id \in ListingIds :
        listings[id].active =>
            listings[id].pricePerUnit > 0 /\ listings[id].quantity > 0

\* A listing is still active after a purchase took part of its units.
C6_Witness ==
    /\ last.op = "buyItem" /\ last.ok
    /\ listings[last.id].active
    /\ listings[last.id].quantity = created[last.id] - last.qty

\* C7 as stated: after every successful buyItem the listing's quantity is
\* its quantity before minus quantityToBuy, and the listing is inactive
\* exactly when that quantity is zero.
C7_SettlementUpdate ==
    [][BuyItemOk =>
        /\ listings'[last'.id].quantity = listings[last'.id].quantity - last'.qty
        /\ ~listings'[last'.id].active <=> listings'[last'.id].quantity = 0]_vars

\* C8: a buyItem whose quantityToBuy is zero or exceeds the listing's
\* quantity is rejected and changes no listing, holding or balance.
C8_QuantityBound ==
    [][(last'.op = "buyItem"
        /\ (last'.qty = 0 \/ last'.qty > listings[last'.id].quantity))
          => ~last'.ok /\ LedgerUnchanged]_vars

\* A buyItem on an active listing asked for zero units and was rejected.
C8_Witness ==
    /\ last.op = "buyItem" /\ ~last.ok /\ last.err = "Invalid quantity"
    /\ listings[last.id].active
    /\ last.qty = 0
    /\ last.value >= listings[last.id].pricePerUnit

\* C9: a buyItem sent with less than pricePerUnit * quantityToBuy is
\* rejected and changes no listing, holding or balance.
C9_Underpayment ==
    [][(last'.op = "buyItem"
        /\ last'.value < listings[last'.id].pricePerUnit * last'.qty)
          => ~last'.ok /\ LedgerUnchanged]_vars

\* A buyItem for two units of an active listing paid more than one unit's
\* price but less than the total, and was rejected.
C9_Witness ==
    /\ last.op = "buyItem" /\ ~last.ok /\ last.err = "Insufficient ETH sent"
    /\ last.qty = 2
    /\ last.value >= listings[last.id].pricePerUnit
    /\ last.value < listings[last.id].pricePerUnit * last.qty

\* C10: in both marketplaces a cancellation by a caller that is not the
\* listing's seller is rejected and changes nothing, whether the listing is
\* active, inactive or was never created.
C10_CancelAuthorization ==
    [][/\ (last'.op = "cancelListing"
            /\ last'.sender # listings[last'.id].seller)
              => ~last'.ok /\ LedgerUnchanged
       /\ (last'.op = "cancel"
            /\ last'.sender # tokenListings[last'.id].seller)
              => ~last'.ok /\ LedgerUnchanged]_vars

\* A caller other than the seller tried to cancel an active listing.
C10_Witness ==
    /\ last.op = "cancelListing" /\ ~last.ok
    /\ listings[last.id].active
    /\ listings[last.id].seller # last.sender

\* C11: a successful cancelListing by the seller clears the active flag of
\* that listing and changes nothing else: not its other fields, no other
\* listing, not the counter, no holding and no balance.
C11_CancelFrame ==
    [][(last'.op = "cancelListing" /\ last'.ok) =>
        /\ last'.sender = listings[last'.id].seller
        /\ listings[last'.id].active
        /\ listings' = [listings EXCEPT ![last'.id].active = FALSE]
        /\ received' = [a \in Accounts |-> 0]
        /\ UNCHANGED <<marketBalance, owner721, tokenApproval,
                       operatorApprovals721, balances1155,
                       operatorApprovals1155, listingIdCounter>>]_vars

\* The seller cancelled a partly sold listing while another one is active.
C11_Witness ==
    /\ last.op = "cancelListing" /\ last.ok
    /\ ~listings[last.id].active
    /\ listings[last.id].quantity > 0
    /\ sold[last.id] > 0
    /\ \E other \in ListingIds \ {last.id} : listings[other].active

\* C12: in both marketplaces a purchase on a listing that is not active
\* (cancelled, filled, or never created) is rejected and changes nothing.
C12_InactiveRejected ==
    [][/\ (last'.op = "buyItem" /\ ~listings[last'.id].active)
              => ~last'.ok /\ LedgerUnchanged
       /\ (last'.op = "purchase" /\ ~tokenListings[last'.id].active)
              => ~last'.ok /\ LedgerUnchanged]_vars

\* A purchase with a valid quantity and full payment on a cancelled listing
\* that still has units was rejected.
C12_Witness ==
    /\ last.op = "buyItem" /\ ~last.ok /\ last.err = "Listing not active"
    /\ listings[last.id].seller # ZERO
    /\ last.qty >= 1 /\ last.qty <= listings[last.id].quantity
    /\ last.value >= listings[last.id].pricePerUnit * last.qty

\* The storage the enumeration views read.
Registry ==
    [listings |-> listings, listingIdCounter |-> listingIdCounter,
     tokenListings |-> tokenListings, activeTokenIds |-> activeTokenIds]

\* C13: getAllActiveListings of the multi-asset marketplace returns exactly
\* the active listings, each once, in increasing listingId order, with no
\* padding and no inactive entry.
C13_EnumerationMulti ==
    LET r == getAllActiveListings(Registry) IN
    /\ \A k \in 1..Len(r) :
          /\ r[k].active
          /\ r[k].listingId \in 1..listingIdCounter
          /\ r[k] = listings[r[k].listingId]
    /\ \A j, k \in 1..Len(r) : j < k => r[j].listingId < r[k].listingId
    /\ \A id \in ListingIds :
          listings[id].active => \E k \in 1..Len(r) : r[k].listingId = id

\* Of two listings created the first is inactive and the enumeration
\* returns the second alone.
C13_Witness ==
    /\ listingIdCounter = 2
    /\ ~listings[1].active /\ listings[2].active
    /\ getAllActiveListings(Registry) = <<listings[2]>>

\* C14 as stated: getActiveListings of the single-asset marketplace returns
\* every active listing exactly once, also after a token was listed more
\* than once.
C14_EnumerationSingle ==
    LET r == getActiveListings(Registry) IN
    /\ \A k \in 1..Len(r) : r[k].active /\ r[k] = tokenListings[r[k].tokenId]
    /\ \A j, k \in 1..Len(r) : j # k => r[j].tokenId # r[k].tokenId
    /\ \A t \in TokenIds :
          tokenListings[t].active => \E k \in 1..Len(r) : r[k].tokenId = t

\* C15: listERC721 and listERC1155 are rejected, and change nothing, when
\* the price is 0, the ERC-1155 quantity is 0, the caller does not own the
\* ERC-721 token or holds fewer ERC-1155 units than asked, or the caller
\* has not approved the marketplace.
C15_ListingGated ==
    [][/\ (last'.op = "listERC721"
            /\ \/ last'.value = 0
               \/ owner721 # last'.sender
               \/ ~(last'.sender \in operatorApprovals721 \/ tokenApproval = Market))
              => ~last'.ok /\ LedgerUnchanged
       /\ (last'.op = "listERC1155"
            /\ \/ last'.value = 0
               \/ last'.qty = 0
               \/ balances1155[last'.sender] < last'.qty
               \/ last'.sender \notin operatorApprovals1155)
              => ~last'.ok /\ LedgerUnchanged]_vars

\* An approved holder asked to list more units than it holds, at a price
\* above zero, and was rejected.
C15_Witness ==
    /\ last.op = "listERC1155" /\ ~last.ok /\ last.err = "Insufficient balance"
    /\ last.value > 0 /\ last.qty > 0
    /\ last.sender \in operatorApprovals1155
    /\ balances1155[last.sender] > 0

\* C16: every successful listERC721 / listERC1155 stores an active listing
\* with the caller as seller under the id one above the counter, which is
\* above every id assigned before; the first id is 1; no other step moves
\* the counter or writes a listing under a new id.
C16_ListingIds ==
    [][/\ (last'.op \in {"listERC721", "listERC1155"} /\ last'.ok) =>
            /\ listingIdCounter' = listingIdCounter + 1
            /\ listings'[listingIdCounter'].active
            /\ listings'[listingIdCounter'].listingId = listingIdCounter'
            /\ listings'[listingIdCounter'].seller = last'.sender
            /\ \A id \in ListingIds \ {listingIdCounter'} :
                   listings'[id] = listings[id]
       /\ ~(last'.op \in {"listERC721", "listERC1155"} /\ last'.ok) =>
            listingIdCounter' = listingIdCounter
       /\ \A id \in ListingIds :
            (id < 1 \/ id > listingIdCounter') => listings'[id] = NoListing]_vars

\* A second listing was created, after a cancel or a sale of the first.
C16_Witness ==
    /\ last.op \in {"listERC721", "listERC1155"} /\ last.ok
    /\ listingIdCounter = 2
    /\ listings[2].listingId = 2 /\ listings[2].seller = last.sender
    /\ ~listings[1].active

\* C17: a created listing's listingId, seller, tokenAddress, tokenId,
\* isERC1155 and pricePerUnit never change, and its quantity never grows.
C17_RecordsImmutable ==
    [][\A id \in 1..listingIdCounter :
          /\ listings'[id].listingId = listings[id].listingId
          /\ listings'[id].seller = listings[id].seller
          /\ listings'[id].tokenAddress = listings[id].tokenAddress
          /\ listings'[id].tokenId = listings[id].tokenId
          /\ listings'[id].isERC1155 = listings[id].isERC1155
          /\ listings'[id].pricePerUnit = listings[id].pricePerUnit
          /\ listings'[id].quantity <= listings[id].quantity]_vars

\* The first listing was partly sold and then cancelled, a second one was
\* created, and the first still carries its seller, id and price.
C17_Witness ==
    /\ listingIdCounter = 2
    /\ sold[1] > 0 /\ ~listings[1].active
    /\ listings[1].quantity = created[1] - sold[1] /\ listings[1].quantity > 0
    /\ listings[1].listingId = 1 /\ listings[1].seller # ZERO
    /\ listings[1].pricePerUnit > 0

\* C18: a listing created by listERC721 has quantity 1 while it is active,
\* buyItem accepts only quantityToBuy = 1 for it, and a successful purchase
\* leaves it inactive with quantity 0.
C18_UniqueQuantity ==
    [][/\ \A id \in 1..listingIdCounter' :
            (~listings'[id].isERC1155 /\ listings'[id].active)
                => listings'[id].quantity = 1
       /\ (BuyItemOk /\ ~listings[last'.id].isERC1155) =>
            /\ last'.qty = 1
            /\ ~listings'[last'.id].active
            /\ listings'[last'.id].quantity = 0]_vars

\* The owner of the unique asset, an account with code, bought its own
\* listing and cancelled it from the receive hook.
C18_Witness ==
    /\ last.op = "buyItem" /\ last.ok /\ last.cb = "cancelListing"
    /\ ~listings[last.id].isERC1155
    /\ listings[last.id].seller = last.sender
    /\ listings[last.id].quantity = 0

\* The asset transfer of the purchase just made cannot succeed: the seller
\* lacks the units or the token, or the marketplace is not approved.
AssetMoveMustFail ==
    LET listedItem == listings[last'.id]
        seller     == listedItem.seller
    IN  IF listedItem.isERC1155
        THEN \/ balances1155[seller] < last'.qty
             \/ seller \notin operatorApprovals1155
        ELSE \/ owner721 # seller
             \/ ~(seller \in operatorApprovals721 \/ tokenApproval = Market)

\* C19: a buyItem whose asset transfer is rejected (the seller lacks the
\* units or the token, the approval was revoked, or the recipient refuses)
\* is rejected as a whole: no payment, no refund owed, listing unchanged.
C19_AllOrNothing ==
    [][(last'.op = "buyItem" /\ listings[last'.id].active
        /\ (AssetMoveMustFail \/ last'.cb = "reject"))
          => ~last'.ok /\ LedgerUnchanged]_vars

\* A fully paid purchase of an active listing was rejected because the
\* seller no longer holds the units.
C19_Witness ==
    /\ last.op = "buyItem" /\ ~last.ok
    /\ last.err = "ERC1155InsufficientBalance"
    /\ listings[last.id].active
    /\ last.qty >= 1 /\ last.qty <= listings[last.id].quantity
    /\ last.value >= listings[last.id].pricePerUnit * last.qty

\* The direct transferAsset just made came from the owner or an approved
\* operator, named the current owner as `from`, and carried the fee.
TransferAssetDue ==
    /\ last'.op = "transferAsset"
    /\ last'.id = Token721 /\ owner721 # ZERO
    /\ IsAuthorized721(Ledger, owner721, last'.sender)
    /\ last'.from = owner721
    /\ last'.value >= transferFee

\* C20 as stated: such a transferAsset (to an address other than zero, the
\* payments not refused) moves the token to `to`, raises the platform
\* owner's balance by transferFee and costs the caller exactly transferFee,
\* the rest of the payment being returned.
C20_FeeTransferAnyCaller ==
    [][(TransferAssetDue /\ last'.to # ZERO /\ last'.cb # "refuse") =>
        /\ last'.ok
        /\ owner721' = last'.to
        /\ received'[platformOwner] = transferFee
        /\ received'[last'.sender] = 0 - transferFee]_vars

\* C20 amended: such a transferAsset to an address other than zero, where
\* code at the platform owner or at the caller does not refuse the payment
\* sent to it, moves the token to `to`; when the caller is not the platform
\* owner the platform owner's balance rises by transferFee and the caller's
\* falls by transferFee; when the caller is the platform owner its balance
\* is unchanged.  No other balance changes and the token contract keeps
\* nothing.
C20_FeeTransfer ==
    [][(TransferAssetDue /\ last'.to # ZERO /\ last'.cb # "refuse") =>
        /\ last'.ok
        /\ owner721' = last'.to
        /\ last'.sender # platformOwner =>
               /\ received'[platformOwner] = transferFee
               /\ received'[last'.sender] = 0 - transferFee
        /\ last'.sender = platformOwner => received'[last'.sender] = 0
        /\ \A a \in Accounts \ {last'.sender, platformOwner} : received'[a] = 0
        /\ marketBalance' = marketBalance]_vars

\* An approved operator that is not the platform owner moved the token to a
\* third account, paid more than the fee and got the excess back.
C20_Witness ==
    /\ last.op = "transferAsset" /\ last.ok
    /\ last.sender # platformOwner /\ last.sender # last.from
    /\ last.to \notin {last.sender, last.from}
    /\ owner721 = last.to
    /\ transferFee > 0 /\ last.value > transferFee
    /\ received[platformOwner] = transferFee
    /\ received[last.sender] = 0 - transferFee

\* C21: a transferAsset whose caller is neither the token's owner, nor its
\* approved address, nor an approved operator of the owner, or whose payment
\* is below transferFee, is rejected; a rejected transferAsset changes no
\* owner and no balance; and a transferAsset that is not rejected has moved
\* the token to `to` and routed the fee from the caller to the platform
\* owner.
C21_TransferRejected ==
    [][last'.op = "transferAsset" =>
        /\ (\/ ~IsAuthorized721(Ledger, owner721, last'.sender)
            \/ last'.value < transferFee) => ~last'.ok
        /\ ~last'.ok => LedgerUnchanged
        /\ last'.ok =>
              /\ owner721' = last'.to
              /\ received'[platformOwner] =
                    IF last'.sender = platformOwner THEN 0 ELSE transferFee
              /\ received'[last'.sender] =
                    IF last'.sender = platformOwner THEN 0 ELSE 0 - transferFee
              /\ marketBalance' = marketBalance]_vars

\* An account that is neither owner nor approved called transferAsset with
\* the fee attached, naming the owner and a recipient, and was rejected.
C21_Witness ==
    /\ last.op = "transferAsset" /\ ~last.ok
    /\ last.err = "Not approved or owner"
    /\ last.sender # owner721 /\ tokenApproval # last.sender
    /\ last.from = owner721 /\ last.to \in Accounts
    /\ transferFee > 0 /\ last.value >= transferFee

\* C22 as stated: whenever the unique asset changes owner outside a
\* marketplace purchase, the call carried at least transferFee and the
\* platform owner was paid the fee out of it.
C22_NoFeeFreeTransfer ==
    [][(owner721' # owner721 /\ last'.op \notin {"buyItem", "purchase"}) =>
        /\ last'.value >= transferFee
        /\ last'.sender # platformOwner =>
              received'[platformOwner] = transferFee]_vars

\* C23: setTransferFee called by an account other than the platform owner is
\* rejected and changes nothing, and transferFee changes only in a
\* successful setTransferFee of the platform owner, to the value it names.
C23_FeeOwnerOnly ==
    [][/\ (last'.op = "setTransferFee" /\ last'.sender # platformOwner) =>
              ~last'.ok /\ LedgerUnchanged
       /\ transferFee' # transferFee =>
              /\ last'.op = "setTransferFee" /\ last'.ok
              /\ last'.sender = platformOwner
              /\ transferFee' = last'.value]_vars

\* An account other than the platform owner asked for a fee different from
\* the current one and was rejected.
C23_Witness ==
    /\ last.op = "setTransferFee" /\ ~last.ok
    /\ last.err = "OwnableUnauthorizedAccount"
    /\ last.sender # platformOwner
    /\ last.value # transferFee

PurchaseOk == last'.op = "purchase" /\ last'.ok

\* C24: a purchase succeeds only on an active listing with a payment of at
\* least price + transferFee; it pays the seller exactly the price and the
\* platform owner exactly transferFee out of the buyer's payment (an account
\* holding two of these roles gets the sum), makes the buyer the token's
\* owner and leaves the listing inactive.
C24_PurchaseSettlement ==
    [][PurchaseOk =>
        LET l     == tokenListings[last'.id]
            fee   == transferFee
            buyer == last'.sender
        IN  /\ l.active
            /\ last'.value >= l.price + fee
            /\ \A a \in Accounts :
                  received'[a] = (IF a = l.seller THEN l.price ELSE 0)
                                 + (IF a = platformOwner THEN fee ELSE 0)
                                 - (IF a = buyer THEN last'.value ELSE 0)
            /\ owner721' = buyer
            /\ ~tokenListings'[last'.id].active]_vars

\* Seller, buyer and platform owner are three accounts; the buyer attached
\* price + fee, the seller holds the price, the platform owner the fee, the
\* buyer the token, and the listing is inactive.
C24_Witness ==
    /\ last.op = "purchase" /\ last.ok
    /\ transferFee > 0
    /\ LET l == tokenListings[last.id] IN
       /\ l.seller \notin {last.sender, platformOwner}
       /\ last.sender # platformOwner
       /\ last.value = l.price + transferFee
       /\ received[l.seller] = l.price
       /\ received[platformOwner] = transferFee
       /\ owner721 = last.sender
       /\ ~l.active

\* C25 as stated: a successful purchase that attached more than price +
\* transferFee returns the excess to the buyer in the same call: the
\* marketplace keeps none of the payment and the buyer's net outlay is
\* price + transferFee.  Stated for a buyer that is neither the seller nor
\* the platform owner, so that nothing it pays comes back to it as a payee.
C25_PurchaseRefund ==
    [][(/\ PurchaseOk
        /\ last'.value > tokenListings[last'.id].price + transferFee
        /\ last'.sender \notin {tokenListings[last'.id].seller, platformOwner}) =>
        /\ marketBalance' = marketBalance
        /\ received'[last'.sender] =
              0 - (tokenListings[last'.id].price + transferFee)]_vars

\* C26: a buyItem on an active listing, for a quantity the listing has,
\* whose product pricePerUnit * quantityToBuy exceeds MaxUint is rejected
\* and changes nothing; every accepted buyItem attached at least the exact
\* product and, the buyer not being the seller, paid the seller exactly it.
C26_ExactProduct ==
    [][last'.op = "buyItem" =>
        LET listedItem == listings[last'.id]
            product    == listedItem.pricePerUnit * last'.qty
        IN  /\ (/\ listedItem.active
                /\ ValidQuantity(listedItem, last'.qty)
                /\ product > MaxUint) => ~last'.ok /\ LedgerUnchanged
            /\ last'.ok =>
                  /\ product <= MaxUint
                  /\ last'.value >= product
                  /\ last'.sender # listedItem.seller =>
                        received'[listedItem.seller] = product]_vars

\* A buyItem for two units of an active listing whose unit price is half of
\* 2^UintBits was rejected by the checked multiplication.
C26_Witness ==
    /\ last.op = "buyItem" /\ ~last.ok /\ last.err = "Panic(0x11)"
    /\ listings[last.id].active
    /\ last.qty <= listings[last.id].quantity
    /\ listings[last.id].pricePerUnit * last.qty > MaxUint

\* C27: buyItem holds the non-reentrant lock for its whole duration: a
\* buyItem whose receive hook starts a buyItem, a listERC721 or a
\* listERC1155 does not go through, and leaves everything as it was.
C27_NonReentrant ==
    [][(/\ last'.op = "buyItem"
        /\ last'.cb \in {"buyItem", "listERC721", "listERC1155"}) =>
            ~last'.ok /\ LedgerUnchanged]_vars

\* The buyer's hook, reached in a purchase that was valid in every other
\* respect, started a buyItem on the same listing and met the lock.
C27_Witness ==
    /\ last.op = "buyItem" /\ ~last.ok /\ last.cb = "buyItem"
    /\ last.err = "ReentrancyGuardReentrantCall"
    /\ listings[last.id].active
    /\ last.qty >= 1 /\ last.qty < listings[last.id].quantity
    /\ last.value >= listings[last.id].pricePerUnit * last.qty

\* C28 as stated: while purchase is making its external calls the listing is
\* out of reach: when transferAsset pays a fee to a platform owner with
\* code, and that code makes a list, a cancel or a purchase on the
\* marketplace, the call it makes does not take effect, so the purchase
\* does not go through with it.
C28_PurchaseExclusive ==
    [][(/\ last'.op = "purchase"
        /\ transferFee > 0 /\ platformOwner \in Hooked
        /\ last'.cb \in {"list", "cancel", "purchase"}) => ~last'.ok]_vars

\* C29 as stated: no cancelListing on a listing takes effect while a buyItem
\* on it is in progress, so a successful buyItem, which started on an active
\* listing, ends with the listing still active or sold out, never
\* deactivated with units left.
C29_NoCancelDuringBuy ==
    [][BuyItemOk =>
        \/ listings'[last'.id].active
        \/ listings'[last'.id].quantity = 0]_vars

\* The recorded seller of the listing a buyItem names no longer holds what
\* the purchase asks for.
StaleListing(listedItem, quantityToBuy) ==
    IF listedItem.isERC1155
    THEN balances1155[listedItem.seller] < quantityToBuy
    ELSE owner721 # listedItem.seller

\* C30: in both marketplaces a purchase of an active listing whose recorded
\* seller no longer holds the listed asset is rejected and changes no
\* holding and no balance, also when the present holder has approved the
\* marketplace; and a purchase that goes through has found the asset in the
\* recorded seller's holdings.
C30_StaleRejected ==
    [][/\ (/\ last'.op = "buyItem"
           /\ listings[last'.id].active
           /\ StaleListing(listings[last'.id], last'.qty)) =>
              ~last'.ok /\ LedgerUnchanged
       /\ (/\ last'.op = "purchase"
           /\ tokenListings[last'.id].active
           /\ owner721 # tokenListings[last'.id].seller) =>
              ~last'.ok /\ LedgerUnchanged
       /\ BuyItemOk => ~StaleListing(listings[last'.id], last'.qty)
       /\ PurchaseOk => owner721 = tokenListings[last'.id].seller]_vars

\* The seller of an active listing has passed the token on, its present
\* holder has approved the marketplace, and a purchase with the full payment
\* attached was rejected.
C30_Witness ==
    /\ last.op = "purchase" /\ ~last.ok
    /\ last.err = "ERC721IncorrectOwner"
    /\ tokenListings[last.id].active
    /\ owner721 \notin {tokenListings[last.id].seller, last.sender}
    /\ tokenApproval = Market
    /\ last.value >= tokenListings[last.id].price + transferFee

====
